---- MODULE Spec2Model ----
(***************************************************************************)
(* A model of ClippoService (the realtime session client): the connection  *)
(* life cycle (start / stop / transport close), text and realtime sends,   *)
(* the screen stream bookkeeping, and the move_cursor_sequence tool-call    *)
(* choreography (capture one frame, look every point up, schedule timers,  *)
(* publish cursor events), the audio that comes in and plays, and the      *)
(* content turns as AppComponent accumulates them.                         *)
(*                                                                         *)
(* The websocket client (./ws-client) and the audio streamer               *)
(* (./audio-streamer) are imported by the service but their code is not    *)
(* part of the sources at hand; they are modelled from the specification   *)
(* (wsDisconnect, wsWrite, audioStop, audioAdd).                           *)
(***************************************************************************)
EXTENDS Integers, Sequences, FiniteSets, TLC

\* ---------------------------------------------------------------- bounds
MaxStarts == 2      \* start() invocations in one behaviour
MaxRuns == 2        \* tool-call requests in one behaviour
MaxPoints == 2      \* points in one move_cursor_sequence call
MaxWire == 2        \* messages written to the transport in one behaviour
MaxAudio == 3       \* audio chunks scheduled in one behaviour
MaxClock == 3       \* how far the device clock of the audio output runs
MaxFrames == 4      \* frames received and user messages sent in one behaviour

\* getDisplayMedia is asked for video and audio: a stream has one or two tracks.
MaxTracks == 2

Null == 0

\* The lead the audio output keeps ahead of the device clock, in clock units.
Lead == 1

\* ------------------------------------------------------------ input sets
\* What the points of a tool call describe, and the delays (seconds) they declare.
Descriptions == {"pad", "button"}
Delays == {-1, 0, 3}
Messages == {"", "hi"}

\* How long an audio chunk plays (clock units), and the volumes the meter reports.
Durations == {1, 2}
Volumes == {0, 1}

\* The text tokens a model-turn frame can carry in its first part, and the
\* server-content frames: a model turn with text, a model turn without (audio
\* only), and a turn completion.
Texts == {"a", "b"}
NoText == <<>>
Contents ==
    {[modelTurn |-> TRUE, text |-> <<t>>, turnComplete |-> FALSE] : t \in Texts}
    \cup {[modelTurn |-> TRUE, text |-> NoText, turnComplete |-> FALSE],
          [modelTurn |-> FALSE, text |-> NoText, turnComplete |-> TRUE]}

\* The captured frame: where each described target is, as the lookup answers
\* it, in [y, x] = [row, col] form normalised to 0-1000.
Scene(desc) == IF desc = "pad" THEN <<100, 200>> ELSE <<400, 500>>

\* What one vision lookup can come to: a JSON object with a point, a JSON
\* object without one, or a failure (the request rejects, or the text does
\* not parse).
Outcomes == {"ok", "nopoint", "reject"}

PointLists == UNION {[1..n -> [description : Descriptions, delay : Delays]] : n \in 1..MaxPoints}

\* The tool-call requests, each with its list of function calls: those with
\* one move_cursor_sequence call, with or without points, the request that
\* is null, the request with no call, and the request with another call
\* before the move_cursor_sequence call.
request(functionCalls) == [null |-> FALSE, functionCalls |-> functionCalls]

nullRequest == [null |-> TRUE, functionCalls |-> <<>>]

moveCursorSequence(points) == [name |-> "move_cursor_sequence", points |-> points]

sequenceCall(points) == request(<<moveCursorSequence(points)>>)

otherCallFirst ==
    request(<<[name |-> "other", points |-> <<>>],
              moveCursorSequence(<<[description |-> "pad", delay |-> 0]>>)>>)

ToolCalls ==
    {sequenceCall(points) : points \in PointLists \cup {<<>>}}
    \cup {nullRequest, request(<<>>), otherCallFirst}

VARIABLES
    isConnected,          \* ClippoService.isConnected
    connectedSubject,     \* latest value of connected$
    streamSubject,        \* latest value of stream$ (a stream id, or Null)
    isStreamingSubject,   \* latest value of isStreaming$
    screenStream,         \* ClippoService.screenStream (a stream id, or Null)
    calls,                \* the start() invocations, each with its transport (tr) and
                          \* the live tracks of the stream it obtained (tracks)
    ws,                   \* wsClient: the transport it holds (index in calls), or Null
    wire,                 \* messages written to the transport, in order
    sendResult,           \* the latest send / sendRealtimeInput call (op) and how it
                          \* ended (outcome): "ok", or "NotConnected" when it threw
    audioStreamer,        \* initializeAudioStreamer: "pending" (awaiting the audio context),
                          \* "created" (the streamer is set, awaiting the worklet), "ready",
                          \* "failed" (no audio context: the field stays null), "unmetered"
                          \* (the worklet failed: the field stays set)
    audioQueue,           \* the buffers scheduled on the device and not yet played
                          \* (indices in audioLog), in arrival order
    playCursor,           \* the streamer's next available playback time
    audioLog,             \* the chunks scheduled, in arrival order, each with its play time
                          \* and the clock when it was scheduled, and the flushes between them
    clock,                \* the device clock of the audio output
    volumeSubject,        \* latest value of volume$
    contentSubject,       \* latest value of content$
    streamedMessage,      \* AppComponent.streamedMessage (a sequence of text tokens)
    messages,             \* AppComponent.messages
    frames,               \* what came in on the transport and what the user sent, in order
    runs,                 \* the handleMoveCursorInSequence invocations
    timers,               \* pending setTimeout callbacks, in registration order
    published,            \* the events published on cursorPosition$, in order
    muted,                \* ControlTrayComponent.muted
    trayIsConnected,      \* ControlTrayComponent.isConnected
    audioRecorder,        \* the tray's AudioRecorder: "recording" or "stopped"
    onVideoStreamChange,  \* what the tray emitted on onVideoStreamChange, in order
                          \* (a value emitted several times by one handler is held once)
    dataListeners,        \* the number of 'data' listeners registered on the recorder
    scheduledFrames       \* the number of sendVideoFrame callbacks that are scheduled
                          \* (by requestAnimationFrame or by setTimeout) and have not run

vars == <<isConnected, connectedSubject, streamSubject, isStreamingSubject,
          screenStream, calls, ws, wire, sendResult,
          audioStreamer, audioQueue, playCursor, audioLog, clock, volumeSubject,
          contentSubject, streamedMessage, messages, frames,
          runs, timers, published,
          muted, trayIsConnected, audioRecorder, onVideoStreamChange,
          dataListeners, scheduledFrames>>

sessionVars == <<isConnected, connectedSubject, calls, ws>>
streamVars == <<streamSubject, isStreamingSubject, screenStream>>
audioVars == <<audioStreamer, audioQueue, playCursor, audioLog, clock, volumeSubject>>
playbackVars == <<audioQueue, playCursor, audioLog>>
audioDevice == <<audioStreamer, clock, volumeSubject>>
cursorVars == <<runs, timers, published>>
contentVars == <<contentSubject, streamedMessage, messages, frames>>
trayVars == <<muted, trayIsConnected, audioRecorder, onVideoStreamChange,
              dataListeners, scheduledFrames>>

\* ------------------------------------------------------------------ Init
Init ==
    /\ isConnected = FALSE
    /\ connectedSubject = FALSE
    /\ streamSubject = Null
    /\ isStreamingSubject = FALSE
    /\ screenStream = Null
    /\ calls = <<>>
    /\ ws = Null
    /\ wire = <<>>
    /\ sendResult = [op |-> "none", outcome |-> "none"]
    /\ audioStreamer = "pending"
    /\ audioQueue = <<>>
    /\ playCursor = 0
    /\ audioLog = <<>>
    /\ clock = 0
    /\ volumeSubject = 0
    /\ contentSubject = Null
    /\ streamedMessage = <<>>
    /\ messages = <<>>
    /\ frames = <<>>
    /\ runs = <<>>
    /\ timers = <<>>
    /\ published = <<>>
    /\ muted = TRUE
    /\ trayIsConnected = FALSE
    /\ audioRecorder = "stopped"
    /\ onVideoStreamChange = <<>>
    /\ dataListeners = 0
    /\ scheduledFrames = 0

\* ------------------------------------------------------------- helpers
Last(s) == s[Len(s)]

SetAt(s, i, v) == [s EXCEPT ![i] = v]

Max0(n) == IF n < 0 THEN 0 ELSE n

\* The transport wsClient holds is open.
wsOpen == ws # Null /\ calls[ws].tr = "open"

\* The transports that are opening or open.
openTransports == {k \in 1..Len(calls) : calls[k].tr \in {"connecting", "open"}}

\* The streams that still have a live track (stream k is the one call k obtained).
liveStreams == {k \in 1..Len(calls) : calls[k].tracks > 0}

\* setConnected(connected): the field and the subject are written together.
setConnectedFieldOnly(connected) ==
    /\ isConnected' = connected
    /\ connectedSubject' = connectedSubject

setConnected(connected) ==
    /\ isConnected' = connected
    /\ connectedSubject' = connected

\* wsClient.disconnect(): closes the transport the client holds, if any. A
\* connect still waiting on that transport fails: the start() that awaits it
\* lands in its catch block (pc "rejected").
wsDisconnect(cs, w) ==
    IF w = Null THEN cs
    ELSE SetAt(cs, w, [cs[w] EXCEPT !.pc = IF @ = "connect" THEN "rejected" ELSE @,
                                    !.tr = "closed"])

\* Whether wsClient.disconnect() fails a pending connect.
failsConnect(cs, w) == w # Null /\ cs[w].pc = "connect"

\* How a send / sendRealtimeInput call ends.
returns(op) == sendResult' = [op |-> op, outcome |-> "ok"]

throwsNotConnected(op) == sendResult' = [op |-> op, outcome |-> "NotConnected"]

\* wsClient.send / wsClient.sendRealtimeInput, called from op: n messages of
\* one kind are written when the transport is open, and the call fails with
\* a not-connected error when it is not.
wsWrite(op, kind, n) ==
    IF wsOpen
    THEN /\ Len(wire) + n <= MaxWire
         /\ wire' = wire \o [i \in 1..n |-> kind]
         /\ returns(op)
    ELSE /\ throwsNotConnected(op)
         /\ UNCHANGED wire

\* this.audioStreamer is set.
hasAudioStreamer == audioStreamer \in {"created", "ready", "unmetered"}

\* The chunks of the log, and the mark a flush leaves in it.
chunks(log) == SelectSeq(log, LAMBDA e : e.kind = "chunk")

flushMark == [kind |-> "flush", playAt |-> 0, duration |-> 0, now |-> 0, reset |-> FALSE]

\* The log, with the mark of a flush behind the chunks it holds.
logFlush(log) ==
    IF log # <<>> /\ Last(log).kind = "chunk" THEN Append(log, flushMark) ELSE log

\* AudioStreamer.stop(): every buffer scheduled and not yet played is
\* cancelled, and the cursor is reset.
audioStop ==
    /\ audioQueue' = <<>>
    /\ playCursor' = clock + Lead
    /\ audioLog' = logFlush(audioLog)

\* AudioStreamer.addPCM16(chunk), the chunk playing for duration: a cursor
\* that has fallen behind the device clock is reset to now + lead, the chunk
\* is scheduled at the cursor, and the cursor moves on by the duration.
audioAddNoReset(duration) ==
    /\ Len(chunks(audioLog)) < MaxAudio
    /\ audioQueue' = Append(audioQueue, Len(audioLog) + 1)
    /\ playCursor' = playCursor + duration
    /\ audioLog' = Append(audioLog, [kind |-> "chunk", playAt |-> playCursor,
                                     duration |-> duration, now |-> clock, reset |-> FALSE])

audioAddNoAdvance(duration) ==
    LET behind == playCursor < clock
        playAt == IF behind THEN clock + Lead ELSE playCursor
    IN /\ Len(chunks(audioLog)) < MaxAudio
       /\ audioQueue' = Append(audioQueue, Len(audioLog) + 1)
       /\ playCursor' = playAt
       /\ audioLog' = Append(audioLog, [kind |-> "chunk", playAt |-> playAt,
                                        duration |-> duration, now |-> clock, reset |-> behind])

audioAdd(duration) ==
    LET behind == playCursor < clock
        playAt == IF behind THEN clock + Lead ELSE playCursor
    IN /\ Len(chunks(audioLog)) < MaxAudio
       /\ audioQueue' = Append(audioQueue, Len(audioLog) + 1)
       /\ playCursor' = playAt + duration
       /\ audioLog' = Append(audioLog, [kind |-> "chunk", playAt |-> playAt,
                                        duration |-> duration, now |-> clock, reset |-> behind])

\* stopAudioStreamer(): nothing without an audio streamer.
stopAudioStreamer ==
    IF hasAudioStreamer THEN audioStop ELSE UNCHANGED playbackVars

\* addAudioData(data): nothing without an audio streamer.
addAudioData(duration) ==
    IF hasAudioStreamer THEN audioAdd(duration) ELSE UNCHANGED playbackVars

\* handleStreamEnded of the stream$ subscriber (the 'ended' listener of every
\* track, and the tail of the wrapped track.stop()).
handleStreamEnded ==
    /\ isStreamingSubject' = FALSE
    /\ streamSubject' = Null

\* stream.getTracks().forEach(track => track.stop()) on the calls cs.
stopTracks(cs, s) == SetAt(cs, s, [cs[s] EXCEPT !.tracks = 0])

newCall == [pc |-> "connect", tr |-> "connecting", tracks |-> 0]

\* ------------------------------------------------------- the session
\* start(), up to its first await: the transport at hand is torn down and a
\* new one is opened. The catch block of a start() whose connect the
\* teardown failed runs right after (a promise reaction).
startWithoutTeardown ==
    /\ Len(calls) < MaxStarts
    /\ calls' = Append(calls, newCall)
    /\ ws' = Len(calls) + 1
    /\ UNCHANGED <<isConnected, connectedSubject>>
    /\ UNCHANGED <<streamVars, wire, sendResult, audioVars, cursorVars>>

    /\ UNCHANGED contentVars
    /\ UNCHANGED trayVars
startReportsConnected ==
    /\ Len(calls) < MaxStarts
    /\ calls' = Append(wsDisconnect(calls, ws), newCall)
    /\ ws' = Len(calls) + 1
    /\ setConnected(TRUE)
    /\ UNCHANGED <<streamVars, wire, sendResult, audioVars, cursorVars>>

    /\ UNCHANGED contentVars
    /\ UNCHANGED trayVars
start ==
    /\ Len(calls) < MaxStarts
    /\ calls' = Append(wsDisconnect(calls, ws), newCall)
    /\ ws' = Len(calls) + 1
    /\ IF failsConnect(calls, ws)
       THEN setConnected(FALSE)
       ELSE UNCHANGED <<isConnected, connectedSubject>>
    /\ UNCHANGED <<streamVars, wire, sendResult, audioVars, cursorVars>>

    /\ UNCHANGED contentVars
    /\ UNCHANGED trayVars
\* start(), after wsClient.connect resolved: connected, and the screen
\* capture is requested.
connectResolved(k) ==
    /\ calls[k].pc = "connect"
    /\ calls[k].tr = "connecting"
    /\ calls' = SetAt(calls, k, [calls[k] EXCEPT !.pc = "media", !.tr = "open"])
    /\ setConnected(TRUE)
    /\ UNCHANGED <<ws, streamVars, wire, sendResult, audioVars, cursorVars>>

    /\ UNCHANGED contentVars
    /\ UNCHANGED trayVars
\* start(), after wsClient.connect rejected (the transport failed to open):
\* the catch block, which rethrows.
connectRejectedKeepsState(k) ==
    /\ calls[k].pc = "connect"
    /\ calls[k].tr = "connecting"
    /\ calls' = SetAt(calls, k, [calls[k] EXCEPT !.pc = "rejected", !.tr = "closed"])
    /\ ws' = IF ws = k THEN Null ELSE ws
    /\ UNCHANGED <<isConnected, connectedSubject>>
    /\ UNCHANGED <<streamVars, wire, sendResult, audioVars, cursorVars>>

    /\ UNCHANGED contentVars
    /\ UNCHANGED trayVars
connectRejected(k) ==
    /\ calls[k].pc = "connect"
    /\ calls[k].tr = "connecting"
    /\ calls' = SetAt(calls, k, [calls[k] EXCEPT !.pc = "rejected", !.tr = "closed"])
    /\ ws' = IF ws = k THEN Null ELSE ws
    /\ setConnected(FALSE)
    /\ UNCHANGED <<streamVars, wire, sendResult, audioVars, cursorVars>>

    /\ UNCHANGED contentVars
    /\ UNCHANGED trayVars
\* start(), getDisplayMedia resolved with a stream of n tracks (stream k for
\* call k): it is published, and the stream$ subscriber hooks its tracks.
displayMediaResolved(k, n) ==
    /\ calls[k].pc = "media"
    /\ calls' = SetAt(calls, k, [calls[k] EXCEPT !.pc = "resolved", !.tracks = n])
    /\ streamSubject' = k
    /\ isStreamingSubject' = TRUE
    /\ screenStream' = k
    /\ UNCHANGED <<isConnected, connectedSubject, ws, wire, sendResult, audioVars, cursorVars>>

    /\ UNCHANGED contentVars
    /\ UNCHANGED trayVars
\* start(), getDisplayMedia rejected: start() resolves with null.
displayMediaRejected(k) ==
    /\ calls[k].pc = "media"
    /\ calls' = SetAt(calls, k, [calls[k] EXCEPT !.pc = "null"])
    /\ isStreamingSubject' = FALSE
    /\ UNCHANGED <<streamSubject, screenStream>>
    /\ UNCHANGED <<isConnected, connectedSubject, ws, wire, sendResult, audioVars, cursorVars>>

    /\ UNCHANGED contentVars
    /\ UNCHANGED trayVars
\* A track of stream s ends (the user stops sharing): handleStreamEnded.
trackEnded(s) ==
    /\ calls[s].tracks > 0
    /\ calls' = SetAt(calls, s, [calls[s] EXCEPT !.tracks = @ - 1])
    /\ handleStreamEnded
    /\ UNCHANGED <<screenStream, isConnected, connectedSubject, ws, wire, sendResult,
                   audioVars, cursorVars>>

    /\ UNCHANGED contentVars
    /\ UNCHANGED trayVars
\* Bookkeeping, no code: the timers pending when stop() is called are marked,
\* so that an event can be told to come from one of them. stop() itself does
\* not touch the timers.
markStopped(ts) == [k \in 1..Len(ts) |-> [ts[k] EXCEPT !.stopped = TRUE]]

\* stop(): the transport is closed, the audio stopped, the session marked
\* disconnected, and the published stream, if any, stopped and withdrawn.
stopKeepsTransport ==
    /\ stopAudioStreamer
    /\ setConnected(FALSE)
    /\ IF streamSubject # Null
       THEN /\ calls' = stopTracks(calls, streamSubject)
            /\ handleStreamEnded
       ELSE UNCHANGED <<calls, streamSubject, isStreamingSubject>>
    /\ timers' = markStopped(timers)
    /\ UNCHANGED <<ws, screenStream, wire, sendResult, audioDevice, runs, published>>

    /\ UNCHANGED contentVars
    /\ UNCHANGED trayVars
stopKeepsConnected ==
    /\ ws' = Null
    /\ stopAudioStreamer
    /\ IF failsConnect(calls, ws)
       THEN setConnected(FALSE)
       ELSE UNCHANGED <<isConnected, connectedSubject>>
    /\ IF streamSubject # Null
       THEN /\ calls' = stopTracks(wsDisconnect(calls, ws), streamSubject)
            /\ handleStreamEnded
       ELSE /\ calls' = wsDisconnect(calls, ws)
            /\ UNCHANGED <<streamSubject, isStreamingSubject>>
    /\ timers' = markStopped(timers)
    /\ UNCHANGED <<screenStream, wire, sendResult, audioDevice, runs, published>>

    /\ UNCHANGED contentVars
    /\ UNCHANGED trayVars
stop ==
    /\ ws' = Null
    /\ stopAudioStreamer
    /\ setConnected(FALSE)
    /\ IF streamSubject # Null
       THEN /\ calls' = stopTracks(wsDisconnect(calls, ws), streamSubject)
            /\ handleStreamEnded
       ELSE /\ calls' = wsDisconnect(calls, ws)
            /\ UNCHANGED <<streamSubject, isStreamingSubject>>
    /\ timers' = markStopped(timers)
    /\ UNCHANGED <<screenStream, wire, sendResult, audioDevice, runs, published>>

    /\ UNCHANGED contentVars
    /\ UNCHANGED trayVars
\* The transport closes under an open session (the peer closes it, or it
\* drops): the 'close' listener.
transportClosedKeepsConnected ==
    /\ wsOpen
    /\ calls' = SetAt(calls, ws, [calls[ws] EXCEPT !.tr = "closed"])
    /\ ws' = Null
    /\ UNCHANGED <<isConnected, connectedSubject>>
    /\ UNCHANGED <<streamVars, wire, sendResult, audioVars, cursorVars>>

    /\ UNCHANGED contentVars
    /\ UNCHANGED trayVars
transportClosed ==
    /\ wsOpen
    /\ calls' = SetAt(calls, ws, [calls[ws] EXCEPT !.tr = "closed"])
    /\ ws' = Null
    /\ setConnected(FALSE)
    /\ UNCHANGED <<streamVars, wire, sendResult, audioVars, cursorVars>>

    /\ UNCHANGED contentVars
    /\ UNCHANGED trayVars
\* send(message).
sendUnguarded(message) ==
    /\ IF message = ""
       THEN returns("send") /\ UNCHANGED wire
       ELSE wsWrite("send", "clientContent", 1)
    /\ UNCHANGED <<sessionVars, streamVars, audioVars, cursorVars>>

    /\ UNCHANGED contentVars
    /\ UNCHANGED trayVars
send(message) ==
    /\ IF ~isConnected
       THEN throwsNotConnected("send") /\ UNCHANGED wire
       ELSE IF message = ""
            THEN returns("send") /\ UNCHANGED wire
            ELSE wsWrite("send", "clientContent", 1)
    /\ UNCHANGED <<sessionVars, streamVars, audioVars, cursorVars>>

    /\ UNCHANGED contentVars
    /\ UNCHANGED trayVars
\* sendRealtimeInput(chunks), with n chunks.
sendRealtimeInput(n) ==
    /\ wsWrite("sendRealtimeInput", "realtimeInput", n)
    /\ UNCHANGED <<sessionVars, streamVars, audioVars, cursorVars>>

    /\ UNCHANGED contentVars
    /\ UNCHANGED trayVars
\* ---------------------------------------------------------- the audio
\* initializeAudioStreamer(), after audioContext(...) settled: the streamer
\* is created and assigned (its cursor a lead ahead of the clock), or the
\* catch block is reached with the field still null.
audioContextSettled(ok) ==
    /\ audioStreamer = "pending"
    /\ audioStreamer' = IF ok THEN "created" ELSE "failed"
    /\ playCursor' = IF ok THEN clock + Lead ELSE playCursor
    /\ UNCHANGED <<sessionVars, streamVars, wire, sendResult,
                   audioQueue, audioLog, clock, volumeSubject, cursorVars>>

    /\ UNCHANGED contentVars
    /\ UNCHANGED trayVars
\* initializeAudioStreamer(), after addWorklet(...) settled: the meter
\* reports from now on, or the catch block is reached with the field set.
workletSettled(ok) ==
    /\ audioStreamer = "created"
    /\ audioStreamer' = IF ok THEN "ready" ELSE "unmetered"
    /\ UNCHANGED <<sessionVars, streamVars, wire, sendResult,
                   playbackVars, clock, volumeSubject, cursorVars>>

    /\ UNCHANGED contentVars
    /\ UNCHANGED trayVars
\* The callback given to addWorklet: the meter reports a volume.
onVolume(volume) ==
    /\ audioStreamer = "ready"
    /\ volumeSubject' = volume
    /\ UNCHANGED <<sessionVars, streamVars, wire, sendResult,
                   playbackVars, audioStreamer, clock, cursorVars>>

    /\ UNCHANGED contentVars
    /\ UNCHANGED trayVars
\* The 'audio' listener, for a chunk that plays for duration.
onAudio(duration) ==
    /\ wsOpen
    /\ addAudioData(duration)
    /\ UNCHANGED <<sessionVars, streamVars, wire, sendResult, audioDevice, cursorVars>>

    /\ UNCHANGED contentVars
    /\ UNCHANGED trayVars
\* The 'interrupted' listener.
onInterruptedIgnored ==
    /\ wsOpen
    /\ audioLog' = logFlush(audioLog)
    /\ UNCHANGED <<audioQueue, playCursor>>
    /\ UNCHANGED <<sessionVars, streamVars, wire, sendResult, audioDevice, cursorVars>>

    /\ UNCHANGED contentVars
    /\ UNCHANGED trayVars
onInterruptedClearsTimers ==
    /\ wsOpen
    /\ stopAudioStreamer
    /\ timers' = <<>>
    /\ UNCHANGED <<sessionVars, streamVars, wire, sendResult, audioDevice, runs, published>>

    /\ UNCHANGED contentVars
    /\ UNCHANGED trayVars
onInterrupted ==
    /\ wsOpen
    /\ stopAudioStreamer
    /\ UNCHANGED <<sessionVars, streamVars, wire, sendResult, audioDevice, cursorVars>>

    /\ UNCHANGED contentVars
    /\ UNCHANGED trayVars
\* The buffer at the head of the queue has played to its end.
played(b) == audioLog[b].playAt + audioLog[b].duration <= clock

headPlayed == IF audioQueue = <<>> THEN FALSE ELSE played(Head(audioQueue))

audioPlayed ==
    /\ headPlayed
    /\ audioQueue' = Tail(audioQueue)
    /\ UNCHANGED <<sessionVars, streamVars, wire, sendResult,
                   playCursor, audioLog, audioDevice, cursorVars>>

    /\ UNCHANGED contentVars
    /\ UNCHANGED trayVars
\* The device clock moves on (it runs once the audio context is there); a
\* buffer that has played to its end has left the queue by then.
clockTick ==
    /\ audioStreamer # "pending"
    /\ audioStreamer # "failed"
    /\ clock < MaxClock
    /\ ~headPlayed
    /\ clock' = clock + 1
    /\ UNCHANGED <<sessionVars, streamVars, wire, sendResult,
                   playbackVars, audioStreamer, volumeSubject, cursorVars>>

    /\ UNCHANGED contentVars
    /\ UNCHANGED trayVars
\* ------------------------------------------------- the cursor sequence
\* The running sum of the declared delays of points 1..i, in milliseconds.
RECURSIVE cumulativeDelay(_, _)
cumulativeDelay(points, i) ==
    IF i = 0 THEN 0 ELSE cumulativeDelay(points, i - 1) + points[i].delay * 1000

\* The timer the loop sets for point i: [y, x] = point, at the cumulative delay.
pointTimerOwnDelay(r, points, i) ==
    LET point == Scene(points[i].description)
        delay == points[i].delay * 1000
    IN [run |-> r, idx |-> i, x |-> point[2], y |-> point[1],
        delay |-> delay, remaining |-> Max0(delay) \div 1000, stopped |-> FALSE]

pointTimerRowAsX(r, points, i) ==
    LET point == Scene(points[i].description)
        delay == cumulativeDelay(points, i)
    IN [run |-> r, idx |-> i, x |-> point[1], y |-> point[2],
        delay |-> delay, remaining |-> Max0(delay) \div 1000, stopped |-> FALSE]

pointTimer(r, points, i) ==
    LET point == Scene(points[i].description)
        delay == cumulativeDelay(points, i)
    IN [run |-> r, idx |-> i, x |-> point[2], y |-> point[1],
        delay |-> delay, remaining |-> Max0(delay) \div 1000, stopped |-> FALSE]

\* The timers the loop sets, in point order: one for every point with a location.
scheduledTimersReversed(r, points, res) ==
    LET located == SelectSeq([i \in 1..Len(points) |-> i], LAMBDA i : res[i] = "ok")
    IN [k \in 1..Len(located) |-> pointTimer(r, points, located[Len(located) + 1 - k])]

scheduledTimersLocatedDelays(r, points, res) ==
    LET located == SelectSeq([i \in 1..Len(points) |-> i], LAMBDA i : res[i] = "ok")
        kept == [k \in 1..Len(located) |-> points[located[k]]]
    IN [k \in 1..Len(located) |-> [pointTimer(r, kept, k) EXCEPT !.idx = located[k]]]

scheduledTimers(r, points, res) ==
    LET located == SelectSeq([i \in 1..Len(points) |-> i], LAMBDA i : res[i] = "ok")
    IN [k \in 1..Len(located) |-> pointTimer(r, points, located[k])]

\* The points handleMoveCursorInSequence takes from a request: those of its
\* first function call, when that is a move_cursor_sequence call.
sequencePointsAnyCall(toolCall) ==
    LET named == SelectSeq(toolCall.functionCalls, LAMBDA c : c.name = "move_cursor_sequence")
    IN IF toolCall.null \/ named = <<>> THEN <<>> ELSE named[1].points

sequencePoints(toolCall) ==
    IF toolCall.null THEN <<>>
    ELSE IF Len(toolCall.functionCalls) > 0
            /\ toolCall.functionCalls[1].name = "move_cursor_sequence"
         THEN toolCall.functionCalls[1].points
         ELSE <<>>

\* The latest value of tool$.
toolSubject == IF runs = <<>> THEN Null ELSE Last(runs).toolCall

\* The 'toolcall' listener and handleMoveCursorInSequence up to its first
\* await: with points and a screen stream, captureLastFrame is called on it
\* (captures counts these calls; frame is the image it resolves with, img the
\* image each lookup is given, order the order in which the lookups settle,
\* pending the number of timers of earlier calls that were set and had not
\* fired when this call came in).
newRun(toolCall) ==
    LET points == sequencePoints(toolCall)
        processed == Len(points) > 0 /\ screenStream # Null
    IN [toolCall |-> toolCall,
        points |-> points,
        pc |-> IF processed THEN "capture" ELSE "ignored",
        stream |-> screenStream,
        active |-> streamSubject # Null \/ isStreamingSubject,
        captures |-> IF processed THEN 1 ELSE 0,
        frame |-> Null,
        img |-> [i \in 1..Len(points) |-> Null],
        res |-> [i \in 1..Len(points) |-> "pending"],
        order |-> <<>>,
        pending |-> Len(timers),
        elapsed |-> 0]

handleMoveCursorInSequenceCancels(toolCall) ==
    /\ wsOpen
    /\ Len(runs) < MaxRuns
    /\ runs' = Append(runs, newRun(toolCall))
    /\ timers' = <<>>
    /\ UNCHANGED <<sessionVars, streamVars, wire, sendResult, audioVars, published>>

    /\ UNCHANGED contentVars
    /\ UNCHANGED trayVars
handleMoveCursorInSequence(toolCall) ==
    /\ wsOpen
    /\ Len(runs) < MaxRuns
    /\ runs' = Append(runs, newRun(toolCall))
    /\ UNCHANGED <<sessionVars, streamVars, wire, sendResult, audioVars, timers, published>>

    /\ UNCHANGED contentVars
    /\ UNCHANGED trayVars
\* captureLastFrame resolved: every lookup is issued, on that one frame. The
\* video element reports its metadata, on which captureLastFrame waits, only
\* for a stream that still delivers frames: on a stream whose tracks have all
\* ended the capture stays pending.
frameCapturedPerPoint(r) ==
    /\ runs[r].pc = "capture"
    /\ runs[r].stream \in liveStreams
    /\ runs' = SetAt(runs, r, [runs[r] EXCEPT !.pc = "lookup",
                                              !.captures = Len(runs[r].points),
                                              !.frame = r,
                                              !.img = [i \in 1..Len(runs[r].points) |-> r + i - 1]])
    /\ UNCHANGED <<sessionVars, streamVars, wire, sendResult, audioVars, timers, published>>

    /\ UNCHANGED contentVars
    /\ UNCHANGED trayVars
frameCaptured(r) ==
    /\ runs[r].pc = "capture"
    /\ runs[r].stream \in liveStreams
    /\ runs' = SetAt(runs, r, [runs[r] EXCEPT !.pc = "lookup",
                                              !.frame = r,
                                              !.img = [i \in 1..Len(runs[r].points) |-> r]])
    /\ UNCHANGED <<sessionVars, streamVars, wire, sendResult, audioVars, timers, published>>

    /\ UNCHANGED contentVars
    /\ UNCHANGED trayVars
\* captureLastFrame threw (no video track, no canvas context): the handler rejects.
captureFailed(r) ==
    /\ runs[r].pc = "capture"
    /\ runs' = SetAt(runs, r, [runs[r] EXCEPT !.pc = "captureFailed"])
    /\ UNCHANGED <<sessionVars, streamVars, wire, sendResult, audioVars, timers, published>>

    /\ UNCHANGED contentVars
    /\ UNCHANGED trayVars
\* The lookup of point i ends with outcome o. A failure rejects the
\* Promise.all and with it the handler (the other lookups still end, unheard);
\* with the last answer the loop runs and sets the timers.
lookupSettled(r, i, o) ==
    /\ runs[r].pc \in {"lookup", "lookupFailed"}
    /\ runs[r].res[i] = "pending"
    /\ LET res == [runs[r].res EXCEPT ![i] = o]
           run == [runs[r] EXCEPT !.res = res, !.order = Append(@, i)]
       IN IF o = "reject" \/ runs[r].pc = "lookupFailed"
          THEN /\ runs' = SetAt(runs, r, [run EXCEPT !.pc = "lookupFailed"])
               /\ UNCHANGED timers
          ELSE IF \A j \in 1..Len(res) : res[j] # "pending"
          THEN /\ runs' = SetAt(runs, r, [run EXCEPT !.pc = "scheduled"])
               /\ timers' = timers \o scheduledTimers(r, runs[r].points, res)
          ELSE /\ runs' = SetAt(runs, r, run)
               /\ UNCHANGED timers
    /\ UNCHANGED <<sessionVars, streamVars, wire, sendResult, audioVars, published>>

    /\ UNCHANGED contentVars
    /\ UNCHANGED trayVars
\* The timers that are due, and the one that fires first (registration order).
due(k) == timers[k].remaining = 0 /\ \A j \in 1..(k - 1) : timers[j].remaining > 0

\* raiseMoveCursorEvent(x, y), from the timer callback k.
raiseMoveCursorEvent(k) ==
    /\ due(k)
    /\ published' = Append(published,
          [run |-> timers[k].run, idx |-> timers[k].idx, x |-> timers[k].x, y |-> timers[k].y,
           delay |-> timers[k].delay, at |-> runs[timers[k].run].elapsed,
           stopped |-> timers[k].stopped])
    /\ timers' = [j \in 1..(Len(timers) - 1) |-> IF j < k THEN timers[j] ELSE timers[j + 1]]
    /\ UNCHANGED <<sessionVars, streamVars, wire, sendResult, audioVars, runs>>

    /\ UNCHANGED contentVars
    /\ UNCHANGED trayVars
\* One second passes with no timer due.
tick ==
    /\ timers # <<>>
    /\ \A k \in 1..Len(timers) : timers[k].remaining > 0
    /\ timers' = [k \in 1..Len(timers) |-> [timers[k] EXCEPT !.remaining = @ - 1]]
    /\ runs' = [r \in 1..Len(runs) |->
                  IF \E k \in 1..Len(timers) : timers[k].run = r
                  THEN [runs[r] EXCEPT !.elapsed = @ + 1]
                  ELSE runs[r]]
    /\ UNCHANGED <<sessionVars, streamVars, wire, sendResult, audioVars, published>>

    /\ UNCHANGED contentVars
    /\ UNCHANGED trayVars
\* The latest value of cursorPosition$.
cursorPositionSubject ==
    IF published = <<>> THEN Null ELSE [x |-> Last(published).x, y |-> Last(published).y]

\* ------------------------------------------------- the content turns
\* messages.pop().
popped(ms) == IF ms = <<>> THEN ms ELSE SubSeq(ms, 1, Len(ms) - 1)

\* AppComponent.handleModelTurn(turn), with the text of the first part of
\* the turn: the preview of the turn so far is withdrawn, the text added to
\* streamedMessage and the new preview pushed.
handleModelTurnReplaces(text) ==
    LET kept == IF Len(streamedMessage) > 0 THEN popped(messages) ELSE messages
    IN IF text # NoText
       THEN /\ streamedMessage' = text
            /\ messages' = Append(kept, [role |-> "model", text |-> text])
       ELSE /\ streamedMessage' = streamedMessage
            /\ messages' = kept

handleModelTurn(text) ==
    LET kept == IF Len(streamedMessage) > 0 THEN popped(messages) ELSE messages
    IN IF text # NoText
       THEN /\ streamedMessage' = streamedMessage \o text
            /\ messages' = Append(kept, [role |-> "model", text |-> streamedMessage \o text])
       ELSE /\ streamedMessage' = streamedMessage
            /\ messages' = kept

\* AppComponent.handleTurnComplete().
handleTurnComplete ==
    /\ messages' = Append(messages, [role |-> "model", text |-> streamedMessage])
    /\ streamedMessage' = <<>>

\* AppComponent.handleContent(data): a frame with a model turn, or one with
\* turnComplete.
handleContent(data) ==
    IF data.modelTurn
    THEN handleModelTurn(data.text)
    ELSE IF data.turnComplete
         THEN handleTurnComplete
         ELSE UNCHANGED <<streamedMessage, messages>>

\* The 'content' listener: the frame is published on content$, whose
\* subscriber is AppComponent.handleContent.
onContent(data) ==
    /\ wsOpen
    /\ Len(frames) < MaxFrames
    /\ frames' = Append(frames, [kind |-> "content", data |-> data])
    /\ contentSubject' = data
    /\ handleContent(data)
    /\ UNCHANGED <<sessionVars, streamVars, wire, sendResult, audioVars, cursorVars>>
    /\ UNCHANGED trayVars

\* A frame that does not parse comes in: the client logs and drops it.
malformedFrame ==
    /\ wsOpen
    /\ Len(frames) < MaxFrames
    /\ frames' = Append(frames, [kind |-> "malformed", data |-> Null])
    /\ UNCHANGED <<contentSubject, streamedMessage, messages>>
    /\ UNCHANGED <<sessionVars, streamVars, wire, sendResult, audioVars, cursorVars>>
    /\ UNCHANGED trayVars

\* AppComponent.send(), with the trimmed text of the form: the text so far
\* is dropped, the message is handed to ClippoService.send (whose failure is
\* a rejected promise nobody awaits) and pushed.
appSend(message) ==
    /\ message # ""
    /\ Len(frames) < MaxFrames
    /\ frames' = Append(frames, [kind |-> "sent", data |-> Null])
    /\ streamedMessage' = <<>>
    /\ IF ~isConnected
       THEN throwsNotConnected("send") /\ UNCHANGED wire
       ELSE wsWrite("send", "clientContent", 1)
    /\ messages' = Append(messages, [role |-> "user", text |-> <<message>>])
    /\ UNCHANGED contentSubject
    /\ UNCHANGED <<sessionVars, streamVars, audioVars, cursorVars>>
    /\ UNCHANGED trayVars

\* ------------------------------------------------- the control tray
\* The tray stands on the session service: it subscribes to connected$ and
\* stream$ when it is built, calls start() and stop(), and holds the
\* microphone recorder. Its subscriber of connected$ runs inside
\* setConnected, that is inside start(), stop() and the 'close' listener.

\* onVideoStreamChange.emit(stream).
emit(stream) == onVideoStreamChange' = Append(onVideoStreamChange, stream)

\* audioRecorder.start() and audioRecorder.stop().
recorderStart == audioRecorder' = "recording"

recorderStop == audioRecorder' = "stopped"

\* audioRecorder.on('data', listener): the recorder is an event emitter, a
\* listener registered on it is added to those it has.
recorderOn == dataListeners' = dataListeners + 1

\* handleAudioRecording(), with the tray's isConnected and muted at the call:
\* a new 'data' listener is registered and the recorder started, or the
\* recorder is stopped.
handleAudioRecordingIgnoresMuted(connected, mute) ==
    IF connected
    THEN recorderOn /\ recorderStart
    ELSE recorderStop /\ UNCHANGED dataListeners

handleAudioRecording(connected, mute) ==
    IF connected /\ ~mute
    THEN recorderOn /\ recorderStart
    ELSE recorderStop /\ UNCHANGED dataListeners

\* changeActiveVideoStream(stream), run by stream$, and initVideoStream():
\* for a stream other than the one the tray holds (activeVideoStream is the
\* latest value of stream$), and with the tray connected, sendVideoFrame is
\* scheduled on the next animation frame.
changeActiveVideoStream(stream) ==
    scheduledFrames' = IF stream # streamSubject /\ stream # Null /\ trayIsConnected
                       THEN scheduledFrames + 1
                       ELSE scheduledFrames

\* The last part of stop(), on the calls cs: the published stream, if any,
\* is stopped and withdrawn.
withdrawStream(cs) ==
    IF streamSubject # Null
    THEN /\ calls' = stopTracks(cs, streamSubject)
         /\ handleStreamEnded
    ELSE /\ calls' = cs
         /\ UNCHANGED <<streamSubject, isStreamingSubject>>

\* handleConnectionChange(connected), run by connected$ after the service
\* has brought the calls to cs and holds the transport w; it ends with
\* handleAudioRecording(), muted being mute by then. With connected false
\* and isStreaming true it calls stop(). That stop() emits false on
\* connected$ before it withdraws the stream, so the subscriber runs again
\* with isStreaming still true and calls stop() again: the calls nest until
\* the stack is used up, the RangeError is held by the subscriber that has
\* room for it, and the calls return one by one. The first stop() to go on
\* withdraws the stream, the others find none; every handleConnectionChange
\* that goes on emits null and stops the recorder.
handleConnectionChangeKeepsStream(connected, cs, w, mute) ==
    /\ trayIsConnected' = connected
    /\ calls' = cs
    /\ ws' = w
    /\ UNCHANGED <<streamSubject, isStreamingSubject, playbackVars, timers>>
    /\ IF ~connected /\ isStreamingSubject
       THEN emit(Null)
       ELSE UNCHANGED onVideoStreamChange
    /\ changeActiveVideoStream(streamSubject)
    /\ handleAudioRecording(connected, mute)

handleConnectionChange(connected, cs, w, mute) ==
    /\ trayIsConnected' = connected
    /\ IF ~connected /\ isStreamingSubject
       THEN /\ ws' = Null
            /\ stopAudioStreamer
            /\ withdrawStream(wsDisconnect(cs, w))
            /\ timers' = markStopped(timers)
            /\ emit(Null)
            /\ changeActiveVideoStream(Null)
       ELSE /\ calls' = cs
            /\ ws' = w
            /\ UNCHANGED <<streamSubject, isStreamingSubject, playbackVars, timers,
                           onVideoStreamChange, scheduledFrames>>
    /\ handleAudioRecording(connected, mute)

\* handleDisconnect(): stop(), within which connected$ emits false to the
\* tray, then the null stream is emitted, the tray muted and the recorder
\* stopped.
handleDisconnect ==
    /\ ws' = Null
    /\ stopAudioStreamer
    /\ setConnected(FALSE)
    /\ trayIsConnected' = FALSE
    /\ withdrawStream(wsDisconnect(calls, ws))
    /\ timers' = markStopped(timers)
    /\ emit(Null)
    /\ changeActiveVideoStream(Null)
    /\ muted' = TRUE
    /\ handleAudioRecording(FALSE, TRUE)
    /\ UNCHANGED <<screenStream, wire, sendResult, audioDevice, runs, published, contentVars>>

\* handleConnect(), up to the await in start(): with no stream, start() is
\* called, which tears the transport at hand down and opens a new one (a
\* connect that the teardown fails emits false on connected$); with a stream
\* nothing is awaited, the tray is unmuted and handleAudioRecording() called.
handleConnectSkipsStart ==
    /\ muted' = FALSE
    /\ handleAudioRecording(trayIsConnected, FALSE)
    /\ UNCHANGED <<sessionVars, trayIsConnected, onVideoStreamChange, scheduledFrames>>
    /\ UNCHANGED <<streamVars, wire, sendResult, audioVars, cursorVars, contentVars>>

\* Whether handleConnect() calls start().
callsStart == ~isStreamingSubject

handleConnect ==
    IF callsStart
    THEN /\ Len(calls) < MaxStarts
         /\ IF failsConnect(calls, ws)
            THEN /\ setConnected(FALSE)
                 /\ handleConnectionChange(FALSE, Append(wsDisconnect(calls, ws), newCall),
                                           Len(calls) + 1, muted)
            ELSE /\ calls' = Append(wsDisconnect(calls, ws), newCall)
                 /\ ws' = Len(calls) + 1
                 /\ UNCHANGED <<isConnected, connectedSubject, streamSubject, isStreamingSubject,
                                playbackVars, timers, trayIsConnected, audioRecorder,
                                onVideoStreamChange, dataListeners, scheduledFrames>>
         /\ UNCHANGED <<screenStream, wire, sendResult, audioDevice, runs, published,
                        muted, contentVars>>
    ELSE handleConnectSkipsStart

\* connectToggle(), the connect button.
connectToggle == IF trayIsConnected THEN handleDisconnect ELSE handleConnect

\* start() of call k, after wsClient.connect resolved: connected$ emits true
\* to the tray, and the screen capture is requested.
trayConnectResolved(k) ==
    /\ calls[k].pc = "connect"
    /\ calls[k].tr = "connecting"
    /\ setConnected(TRUE)
    /\ handleConnectionChange(TRUE, SetAt(calls, k, [calls[k] EXCEPT !.pc = "media", !.tr = "open"]),
                              ws, muted)
    /\ UNCHANGED <<screenStream, wire, sendResult, audioDevice, runs, published,
                   muted, contentVars>>

\* start() of call k, after wsClient.connect rejected: the catch block emits
\* false to the tray and rethrows, and handleConnect ends there.
trayConnectRejected(k) ==
    /\ calls[k].pc = "connect"
    /\ calls[k].tr = "connecting"
    /\ setConnected(FALSE)
    /\ handleConnectionChange(FALSE,
                              SetAt(calls, k, [calls[k] EXCEPT !.pc = "rejected", !.tr = "closed"]),
                              IF ws = k THEN Null ELSE ws, muted)
    /\ UNCHANGED <<screenStream, wire, sendResult, audioDevice, runs, published,
                   muted, contentVars>>

\* start() of call k resolved with a stream of n tracks, and handleConnect
\* goes on: the stream is emitted, the tray unmuted, handleAudioRecording()
\* called.
trayDisplayMediaResolved(k, n) ==
    /\ calls[k].pc = "media"
    /\ calls' = SetAt(calls, k, [calls[k] EXCEPT !.pc = "resolved", !.tracks = n])
    /\ streamSubject' = k
    /\ isStreamingSubject' = TRUE
    /\ screenStream' = k
    /\ changeActiveVideoStream(k)
    /\ emit(k)
    /\ muted' = FALSE
    /\ handleAudioRecording(trayIsConnected, FALSE)
    /\ UNCHANGED <<isConnected, connectedSubject, ws, wire, sendResult, audioVars, cursorVars,
                   trayIsConnected, contentVars>>

\* start() of call k resolved with null (the capture was refused or
\* failed), and handleConnect goes on in the same way.
trayDisplayMediaRejectedStaysMuted(k) ==
    /\ calls[k].pc = "media"
    /\ calls' = SetAt(calls, k, [calls[k] EXCEPT !.pc = "null"])
    /\ isStreamingSubject' = FALSE
    /\ emit(Null)
    /\ handleAudioRecording(trayIsConnected, muted)
    /\ UNCHANGED <<streamSubject, screenStream, muted, scheduledFrames>>
    /\ UNCHANGED <<isConnected, connectedSubject, ws, wire, sendResult, audioVars, cursorVars,
                   trayIsConnected, contentVars>>

trayDisplayMediaRejected(k) ==
    /\ calls[k].pc = "media"
    /\ calls' = SetAt(calls, k, [calls[k] EXCEPT !.pc = "null"])
    /\ isStreamingSubject' = FALSE
    /\ emit(Null)
    /\ muted' = FALSE
    /\ handleAudioRecording(trayIsConnected, FALSE)
    /\ UNCHANGED <<streamSubject, screenStream, scheduledFrames>>
    /\ UNCHANGED <<isConnected, connectedSubject, ws, wire, sendResult, audioVars, cursorVars,
                   trayIsConnected, contentVars>>

\* The transport closes under an open session: the 'close' listener emits
\* false to the tray.
trayTransportClosed ==
    /\ wsOpen
    /\ setConnected(FALSE)
    /\ handleConnectionChange(FALSE, SetAt(calls, ws, [calls[ws] EXCEPT !.tr = "closed"]),
                              Null, muted)
    /\ UNCHANGED <<screenStream, wire, sendResult, audioDevice, runs, published,
                   muted, contentVars>>

\* The recorder, recording, hands a chunk to its 'data' listeners: each of
\* them calls sendRealtimeInput with it.
recorderData ==
    /\ audioRecorder = "recording"
    /\ wsWrite("sendRealtimeInput", "realtimeInput", dataListeners)
    /\ UNCHANGED <<sessionVars, streamVars, audioVars, cursorVars, contentVars, trayVars>>

\* A scheduled sendVideoFrame runs: with no stream it ends there; else it
\* sends a frame when the video has a size (sized), and with the tray
\* connected it schedules itself again, two seconds on.
sendVideoFrame(sized) ==
    /\ scheduledFrames > 0
    /\ IF isStreamingSubject /\ sized
       THEN wsWrite("sendRealtimeInput", "realtimeInput", 1)
       ELSE UNCHANGED <<wire, sendResult>>
    /\ scheduledFrames' = IF isStreamingSubject /\ trayIsConnected
                          THEN scheduledFrames
                          ELSE scheduledFrames - 1
    /\ UNCHANGED <<sessionVars, streamVars, audioVars, cursorVars, contentVars,
                   muted, trayIsConnected, audioRecorder, onVideoStreamChange, dataListeners>>

\* ------------------------------------------- the screen capture service
\* ScreenCaptureService is the stream part of the session service on its
\* own: streamSubject, isStreamingSubject and the subscriber that hooks the
\* tracks are the same code. Its start() calls are held in calls, as those
\* of the session are (stream k is the one call k obtained).

\* The number of start() calls of the screen capture service in a run.
MaxCaptures == 3

\* start(): getDisplayMedia is asked for a stream.
captureStart ==
    /\ Len(calls) < MaxCaptures
    /\ calls' = Append(calls, [pc |-> "media", tr |-> "closed", tracks |-> 0])
    /\ UNCHANGED <<isConnected, connectedSubject, ws, streamVars, wire, sendResult,
                   audioVars, cursorVars, contentVars, trayVars>>

\* start() of call k, getDisplayMedia resolved with a stream of n tracks:
\* it is published, the subscriber hooks its tracks, isStreaming is true.
captureResolved(k, n) ==
    /\ calls[k].pc = "media"
    /\ calls' = SetAt(calls, k, [calls[k] EXCEPT !.pc = "resolved", !.tracks = n])
    /\ streamSubject' = k
    /\ isStreamingSubject' = TRUE
    /\ UNCHANGED <<isConnected, connectedSubject, ws, screenStream, wire, sendResult,
                   audioVars, cursorVars, contentVars, trayVars>>

\* start() of call k, getDisplayMedia rejected: isStreaming is set false
\* and start() resolves with null.
captureRejected(k) ==
    /\ calls[k].pc = "media"
    /\ calls' = SetAt(calls, k, [calls[k] EXCEPT !.pc = "null"])
    /\ isStreamingSubject' = FALSE
    /\ UNCHANGED <<isConnected, connectedSubject, ws, streamSubject, screenStream, wire,
                   sendResult, audioVars, cursorVars, contentVars, trayVars>>

\* stop(): the published stream, if any, is stopped and withdrawn.
captureStop ==
    /\ withdrawStream(calls)
    /\ UNCHANGED <<isConnected, connectedSubject, ws, screenStream, wire, sendResult,
                   audioVars, cursorVars, contentVars, trayVars>>

\* ------------------------------------------------------------------ Next
\* The connection: its life cycle.
Connection ==
    \/ start
    \/ \E k \in 1..Len(calls) : connectResolved(k)
    \/ \E k \in 1..Len(calls) : connectRejected(k)
    \/ stop
    \/ transportClosed

\* The screen stream.
Screen ==
    \/ \E k \in 1..Len(calls), n \in 1..MaxTracks : displayMediaResolved(k, n)
    \/ \E k \in 1..Len(calls) : displayMediaRejected(k)
    \/ \E s \in 1..Len(calls) : trackEnded(s)

\* The session: its connection and its screen stream.
Session == Connection \/ Screen

\* What is sent, and the audio that comes in.
Traffic ==
    \/ \E message \in Messages : send(message)
    \/ \E n \in 1..MaxWire : sendRealtimeInput(n)

\* The audio that comes in and plays.
Audio ==
    \/ \E ok \in BOOLEAN : audioContextSettled(ok)
    \/ \E ok \in BOOLEAN : workletSettled(ok)
    \/ \E volume \in Volumes : onVolume(volume)
    \/ \E duration \in Durations : onAudio(duration)
    \/ onInterrupted
    \/ audioPlayed
    \/ clockTick

\* No tool-call request has come in yet.
firstRequest == runs = <<>>

\* One tool call, of any shape, and its cursor events.
Cursor ==
    \/ \E toolCall \in ToolCalls : firstRequest /\ handleMoveCursorInSequence(toolCall)
    \/ \E r \in 1..Len(runs) : frameCaptured(r)
    \/ \E r \in 1..Len(runs) : captureFailed(r)
    \/ \E r \in 1..Len(runs) : \E i \in 1..Len(runs[r].points), o \in Outcomes : lookupSettled(r, i, o)
    \/ \E k \in 1..Len(timers) : raiseMoveCursorEvent(k)
    \/ tick

\* The session with its traffic.
Next == Session \/ Traffic

Spec == Init /\ [][Next]_vars

\* The session with its tool calls.
NextCursor == Session \/ Cursor

SpecCursor == Init /\ [][NextCursor]_vars

\* The content that comes in, and what the user sends.
Content ==
    \/ \E data \in Contents : onContent(data)
    \/ malformedFrame
    \/ \E message \in Messages : appSend(message)

\* The connection with its content turns.
NextContent == Connection \/ Content

SpecContent == Init /\ [][NextContent]_vars

\* The connection with its audio (the screen stream, left unasked for after
\* the connect, plays no part in the audio).
NextAudio == Connection \/ Audio

SpecAudio == Init /\ [][NextAudio]_vars

\* The session as the control tray drives it: the connect button, the
\* promises of start(), the transport's close and the end of a track.
NextTray ==
    \/ connectToggle
    \/ \E k \in 1..Len(calls) : trayConnectResolved(k)
    \/ \E k \in 1..Len(calls) : trayConnectRejected(k)
    \/ \E k \in 1..Len(calls), n \in 1..MaxTracks : trayDisplayMediaResolved(k, n)
    \/ \E k \in 1..Len(calls) : trayDisplayMediaRejected(k)
    \/ trayTransportClosed
    \/ \E s \in 1..Len(calls) : trackEnded(s)
    \/ recorderData
    \/ \E sized \in BOOLEAN : sendVideoFrame(sized)

SpecTray == Init /\ [][NextTray]_vars

\* The screen capture service on its own: its start() calls and how they
\* end, stop(), and the end of a track of any stream it obtained.
NextCapture ==
    \/ captureStart
    \/ \E k \in 1..Len(calls), n \in 1..MaxTracks : captureResolved(k, n)
    \/ \E k \in 1..Len(calls) : captureRejected(k)
    \/ captureStop
    \/ \E s \in 1..Len(calls) : trackEnded(s)

SpecCapture == Init /\ [][NextCapture]_vars

\* ================================================================ claims
\* What the claims speak of.
eventsOf(r) == SelectSeq(published, LAMBDA e : e.run = r)

hasTimer(r, i) == \E k \in 1..Len(timers) : timers[k].run = r /\ timers[k].idx = i

hasEvent(r, i) == \E k \in 1..Len(published) : published[k].run = r /\ published[k].idx = i

\* Every timer set and every event published, as [run, idx, delay].
scheduledPoints ==
    {[run |-> timers[k].run, idx |-> timers[k].idx, delay |-> timers[k].delay] : k \in 1..Len(timers)}
    \cup {[run |-> published[k].run, idx |-> published[k].idx, delay |-> published[k].delay] :
            k \in 1..Len(published)}

\* The declared delays of points 1..i, added up, in seconds.
RECURSIVE SumDelays(_, _)
SumDelays(points, i) == IF i = 0 THEN 0 ELSE points[i].delay + SumDelays(points, i - 1)

nonNegativeDelays(points) == \A i \in 1..Len(points) : points[i].delay >= 0

\* C1: once the handler of a tool call is through with its lookups, a point
\* whose lookup failed has neither a timer nor an event, and every point
\* whose lookup succeeded has its timer set or its event published.
C1_FailedLookupLosesOnlyItsPoint ==
    \A r \in 1..Len(runs) :
        runs[r].pc \in {"lookupFailed", "scheduled"} =>
            \A i \in 1..Len(runs[r].points) :
                /\ runs[r].res[i] = "reject" => ~hasTimer(r, i) /\ ~hasEvent(r, i)
                /\ runs[r].res[i] = "ok" => hasTimer(r, i) \/ hasEvent(r, i)

\* C2: in a call whose declared delays are all >= 0, the timer of point i is
\* set at 1000 times the sum of the declared delays of points 1..i, and
\* these delays do not decrease with i.
C2_CumulativeDelays ==
    \A p \in scheduledPoints :
        nonNegativeDelays(runs[p.run].points) =>
            /\ p.delay = 1000 * SumDelays(runs[p.run].points, p.idx)
            /\ \A q \in scheduledPoints :
                  q.run = p.run /\ q.idx < p.idx => q.delay <= p.delay

\* C2, witness: the event of a second point was published at a delay made of
\* both declared delays.
C2_Witness ==
    \E k \in 1..Len(published) :
        /\ published[k].idx = 2
        /\ runs[published[k].run].points[1].delay > 0
        /\ runs[published[k].run].points[2].delay > 0
        /\ published[k].delay = 1000 * (runs[published[k].run].points[1].delay
                                         + runs[published[k].run].points[2].delay)

PadThenButton == <<[description |-> "pad", delay |-> 0], [description |-> "button", delay |-> 3]>>

PadThenButtonEvents == <<[x |-> 200, y |-> 100, at |-> 0], [x |-> 500, y |-> 400, at |-> 3]>>

shown(evs) == [k \in 1..Len(evs) |-> [x |-> evs[k].x, y |-> evs[k].y, at |-> evs[k].at]]

\* C3: the call with points (pad, 0 s), (button, 3 s), both located, publishes
\* {x: 200, y: 100} at 0 s and then {x: 500, y: 400} at 3 s, and nothing
\* else: at any time a prefix of these two events, and both of them once no
\* timer of the call is left.
C3_PadThenButton ==
    \A r \in 1..Len(runs) :
        runs[r].points = PadThenButton /\ runs[r].pc = "scheduled" /\ runs[r].res = <<"ok", "ok">> =>
            LET evs == shown(eventsOf(r))
            IN /\ Len(evs) <= 2
               /\ evs = SubSeq(PadThenButtonEvents, 1, Len(evs))
               /\ (\A k \in 1..Len(timers) : timers[k].run # r) => Len(evs) = 2

\* C3, witness: both events of such a call are published.
C3_Witness ==
    \E r \in 1..Len(runs) :
        /\ runs[r].points = PadThenButton
        /\ runs[r].res = <<"ok", "ok">>
        /\ Len(eventsOf(r)) = 2

\* C4: a tool call processed while no screen stream is active (stream$ holds
\* null and isStreaming is false) captures no frame for a lookup, issues no
\* lookup and publishes no event.
C4_NoStreamNoLookup ==
    \A r \in 1..Len(runs) :
        ~runs[r].active =>
            /\ runs[r].pc \notin {"lookup", "lookupFailed", "scheduled"}
            /\ eventsOf(r) = <<>>

\* C5: no event is published by a timer that was pending when stop() was called.
C5_StopSilencesTimers ==
    \A k \in 1..Len(published) : ~published[k].stopped

C7_RealtimeGuard ==
    [][\A n \in 1..MaxWire :
          sendRealtimeInput(n) /\ ~isConnected =>
              /\ sendResult' = [op |-> "sendRealtimeInput", outcome |-> "NotConnected"]
              /\ wire' = wire]_vars

\* C7, witness: realtime input failed on a session that had been connected
\* and no longer is.
C7_Witness ==
    /\ ~isConnected
    /\ sendResult = [op |-> "sendRealtimeInput", outcome |-> "NotConnected"]
    /\ \E k \in 1..Len(calls) : calls[k].pc \in {"media", "resolved", "null"}

\* C8: at most one transport is opening or open, whatever start() calls
\* were made.
C8_OneTransport == Cardinality(openTransports) <= 1

\* C8, witness: a second start() found the session of the first one open;
\* the first transport is closed and the second one open.
C8_Witness ==
    /\ Len(calls) >= 2
    /\ calls[1].pc \in {"media", "resolved", "null"}
    /\ calls[1].tr = "closed"
    /\ calls[2].tr = "open"

\* A session that is stopped: no transport, not connected, no stream, no
\* audio scheduled.
stopped ==
    /\ ws = Null
    /\ ~isConnected
    /\ ~connectedSubject
    /\ streamSubject = Null
    /\ ~isStreamingSubject
    /\ audioQueue = <<>>

\* C9: stop() always leaves the session stopped; on a disconnected session
\* with no stream it changes neither connected, stream nor isStreaming; and
\* on a stopped session it changes nothing of the session, its stream, what
\* was sent or the audio scheduled (stop(); stop() is stop()). Only the
\* streamer's cursor is set anew, a lead ahead of the clock.
C9_StopIdempotent ==
    [][stop =>
          /\ stopped'
          /\ ~isConnected /\ streamSubject = Null /\ ~isStreamingSubject =>
                UNCHANGED <<isConnected, connectedSubject, streamSubject, isStreamingSubject>>
          /\ stopped => UNCHANGED <<sessionVars, streamVars, wire, sendResult,
                                    audioQueue, audioDevice, cursorVars>>]_vars

\* C9, witness: a session that was connected with a stream, and is stopped.
C9_Witness ==
    /\ stopped
    /\ \E k \in 1..Len(calls) :
          calls[k].pc = "resolved" /\ calls[k].tr = "closed" /\ calls[k].tracks = 0

\* C10: whenever the connect of a start() fails, that start() is rejected and
\* stays so (it never asks for the screen and never gets a stream), the
\* session is disconnected right then, and no stream becomes active.
C10_FailedConnect ==
    [][\A k \in 1..Len(calls) :
          /\ calls[k].pc = "connect" /\ calls'[k].pc # "connect" /\ calls'[k].tr # "open" =>
                /\ calls'[k].pc = "rejected"
                /\ ~isConnected'
                /\ ~connectedSubject'
                /\ streamSubject' \in {streamSubject, Null}
                /\ isStreamingSubject' => isStreamingSubject
                /\ screenStream' = screenStream
          /\ calls[k].pc = "rejected" => calls'[k].pc = "rejected" /\ calls'[k].tracks = 0]_vars

\* C10, witness: a reconnect failed while the stream of the first start()
\* was active: the session is disconnected.
C10_Witness ==
    /\ Len(calls) >= 2
    /\ calls[1].pc = "resolved"
    /\ calls[2].pc = "rejected"
    /\ ~isConnected
    /\ ~connectedSubject

\* The start() calls whose connect has resolved.
connectedCalls == {k \in 1..Len(calls) : calls[k].pc \in {"media", "resolved", "null"}}

\* C11: connected$ turns true only in the step in which the connect of a
\* start() resolves, and a session none of whose start() calls has had its
\* connect resolved is never reported connected: not before start(), and
\* not between start() and the resolution.
C11_ConnectedAfterResolve ==
    [][/\ connectedSubject' /\ ~connectedSubject =>
              \E k \in 1..Len(calls) :
                  /\ calls[k].pc = "connect" /\ calls[k].tr = "connecting"
                  /\ calls'[k].pc = "media" /\ calls'[k].tr = "open"
       /\ connectedCalls' = {} => ~connectedSubject' /\ ~isConnected']_vars

\* C11, witness: the connect of the first start() has resolved and the
\* session is reported connected.
C11_Witness ==
    /\ Len(calls) = 1
    /\ calls[1].pc = "media"
    /\ calls[1].tr = "open"
    /\ connectedSubject
    /\ isConnected

\* C12: the step in which the transport closes under a connected session
\* leaves the session reported disconnected with no transport opening or
\* open, and a disconnected session without such a transport stays so in
\* every step that is not a new start() call.
C12_NoReconnect ==
    [][/\ transportClosed /\ connectedSubject =>
              ~connectedSubject' /\ ~isConnected' /\ openTransports' = {}
       /\ ~connectedSubject /\ openTransports = {} /\ Len(calls') = Len(calls) =>
              ~connectedSubject' /\ openTransports' = {}]_vars

\* C12, witness: the transport of the only start() closed under the session
\* while its stream was active (stop() would have withdrawn the stream).
C12_Witness ==
    /\ Len(calls) = 1
    /\ calls[1].pc = "resolved"
    /\ calls[1].tr = "closed"
    /\ streamSubject = 1
    /\ ~connectedSubject
    /\ ~isConnected
    /\ ws = Null

\* A tool call in a session whose audio plays: the session, the tool call
\* with points (pad, 0 s), (button, 3 s), both located, and the audio that
\* comes in on a streamer that was created.
NextInterrupt ==
    \/ Session
    \/ firstRequest /\ handleMoveCursorInSequence(sequenceCall(PadThenButton))
    \/ \E r \in 1..Len(runs) : frameCaptured(r)
    \/ \E r \in 1..Len(runs) : \E i \in 1..Len(runs[r].points) : lookupSettled(r, i, "ok")
    \/ \E k \in 1..Len(timers) : raiseMoveCursorEvent(k)
    \/ tick
    \/ audioContextSettled(TRUE)
    \/ \E duration \in Durations : onAudio(duration)
    \/ onInterrupted

SpecInterrupt == Init /\ [][NextInterrupt]_vars

\* C13: the step that handles an Interrupted event changes nothing but the
\* audio scheduled: the timers of a tool call and its events, the connection
\* and the screen stream are as before, and with a streamer no buffer is
\* left on the device.
C13_InterruptOnlyAudio ==
    [][onInterrupted =>
          /\ UNCHANGED <<timers, runs, published>>
          /\ UNCHANGED <<isConnected, connectedSubject, calls, ws>>
          /\ UNCHANGED <<streamSubject, isStreamingSubject, screenStream>>
          /\ UNCHANGED <<wire, sendResult, audioStreamer, volumeSubject>>
          /\ hasAudioStreamer => audioQueue' = <<>>]_vars

\* C13, witness: on the open session of the only start(), with its stream
\* active, an Interrupted event flushed the audio while the timer of the
\* second point was pending, and the timer is still pending.
C13_Witness ==
    /\ Len(calls) = 1
    /\ wsOpen
    /\ isConnected
    /\ streamSubject = 1
    /\ audioLog # <<>>
    /\ Last(audioLog).kind = "flush"
    /\ audioQueue = <<>>
    /\ \E k \in 1..Len(timers) : timers[k].idx = 2 /\ timers[k].remaining > 0

\* The entries of the audio log that are chunks.
chunkAt(i) == audioLog[i].kind = "chunk"

\* A flush lies between the entries i and j of the audio log.
flushBetween(i, j) == \E m \in (i + 1)..(j - 1) : audioLog[m].kind = "flush"

\* C14: the step that handles an Interrupted event leaves no buffer scheduled
\* on the device, and after every step each buffer on the device is one that
\* was scheduled after the latest flush: what was scheduled and unplayed at the
\* event never plays, and a chunk that arrives after the event is scheduled
\* on the flushed device.
C14_InterruptFlushes ==
    [][/\ onInterrupted /\ hasAudioStreamer => audioQueue' = <<>>
       /\ \A q \in 1..Len(audioQueue') :
             \A m \in audioQueue'[q]..Len(audioLog') : audioLog'[m].kind = "chunk"]_vars

\* C14, witness: on the open session of the only start(), a chunk that had
\* not begun to play was flushed by an Interrupted event, and the chunk that
\* arrived after the event is the only buffer on the device.
C14_Witness ==
    /\ Len(calls) = 1
    /\ wsOpen
    /\ Len(audioLog) = 3
    /\ chunkAt(1)
    /\ audioLog[2].kind = "flush"
    /\ chunkAt(3)
    /\ audioLog[1].playAt > audioLog[3].now
    /\ audioQueue = <<3>>

\* C15 as stated: the chunks are scheduled at play times that do not decrease
\* in arrival order, and a chunk that follows another with neither a flush
\* nor a backlog reset between them is scheduled where the other ends.
C15_PlayAtOrdered ==
    \A i, j \in 1..Len(audioLog) :
        i < j /\ chunkAt(i) /\ chunkAt(j) =>
            /\ audioLog[i].playAt <= audioLog[j].playAt
            /\ j = i + 1 /\ ~audioLog[j].reset =>
                  audioLog[j].playAt = audioLog[i].playAt + audioLog[i].duration

\* C15, amended: the same for chunks with no flush between them.
C15_PlayAtOrderedBetweenFlushes ==
    \A i, j \in 1..Len(audioLog) :
        i < j /\ chunkAt(i) /\ chunkAt(j) /\ ~flushBetween(i, j) =>
            /\ audioLog[i].playAt <= audioLog[j].playAt
            /\ j = i + 1 /\ ~audioLog[j].reset =>
                  audioLog[j].playAt = audioLog[i].playAt + audioLog[i].duration

\* C15, witness: three chunks scheduled back to back, with no flush and no
\* backlog reset.
C15_Witness ==
    /\ Len(audioLog) = 3
    /\ \A i \in 1..3 : chunkAt(i) /\ ~audioLog[i].reset
    /\ audioLog[2].playAt = audioLog[1].playAt + audioLog[1].duration
    /\ audioLog[3].playAt = audioLog[2].playAt + audioLog[2].duration

\* C16: no chunk is scheduled at a play time before the device clock of the
\* moment it is scheduled, and a chunk that finds the cursor behind the clock
\* is scheduled at now + lead.
C16_NeverBeforeNow ==
    [][/\ \A i \in 1..Len(audioLog') :
             audioLog'[i].kind = "chunk" => audioLog'[i].playAt >= audioLog'[i].now
       /\ \A duration \in Durations :
             onAudio(duration) /\ hasAudioStreamer /\ playCursor < clock =>
                 /\ Last(audioLog').playAt = clock + Lead
                 /\ playCursor' = clock + Lead + duration]_vars

\* C16, witness: a chunk came after the cursor had fallen behind the clock,
\* behind an earlier chunk that had played out.
C16_Witness ==
    \E i \in 2..Len(audioLog) :
        /\ chunkAt(i - 1)
        /\ chunkAt(i)
        /\ audioLog[i].reset
        /\ audioLog[i].now > audioLog[i - 1].playAt + audioLog[i - 1].duration
        /\ audioLog[i].playAt = audioLog[i].now + Lead

\* The initialisation of the audio has failed.
audioInitFailed == audioStreamer \in {"failed", "unmetered"}

\* C17: once the initialisation of the audio has failed, an audio chunk or
\* an Interrupted event is dropped (nothing is scheduled on or flushed from
\* the device), and no volume is published.
C17_FailedAudioIsOff ==
    [][audioInitFailed =>
          /\ (\E duration \in Durations : onAudio(duration)) \/ onInterrupted =>
                UNCHANGED playbackVars
          /\ volumeSubject' = volumeSubject]_vars

\* The frames of the turn under way: those behind the latest turn completion.
completions(fs) ==
    {i \in 1..Len(fs) : fs[i].kind = "content" /\ fs[i].data.turnComplete}

turnOf(fs) ==
    LET done == completions(fs)
        from == IF done = {} THEN 1 ELSE 1 + CHOOSE i \in done : \A j \in done : j <= i
    IN SubSeq(fs, from, Len(fs))

\* The text of the valid partials among the frames fs, in arrival order.
RECURSIVE textOf(_)
textOf(fs) ==
    IF fs = <<>> THEN <<>>
    ELSE (IF Head(fs).kind = "content" /\ Head(fs).data.modelTurn
          THEN Head(fs).data.text ELSE <<>>) \o textOf(Tail(fs))

\* The user sent no message during the frames fs.
unsent(fs) == \A i \in 1..Len(fs) : fs[i].kind # "sent"

\* C18: every valid content frame is published on content$ as it arrives,
\* a malformed frame changes nothing a consumer holds, and in a turn during
\* which the user sent nothing the text accumulated is at every frame the
\* concatenation, in arrival order, of the texts of the valid partials; the
\* turn completion pushes that text as the model message and empties it.
C18_MalformedFrameBetween ==
    [][/\ \A data \in Contents : onContent(data) => contentSubject' = data
       /\ malformedFrame => UNCHANGED <<contentSubject, streamedMessage, messages>>
       /\ unsent(turnOf(frames')) => streamedMessage' = textOf(turnOf(frames'))
       /\ \A data \in Contents :
             onContent(data) /\ data.turnComplete /\ unsent(turnOf(frames)) =>
                 /\ Last(messages') = [role |-> "model", text |-> textOf(turnOf(frames))]
                 /\ streamedMessage' = <<>>]_vars

\* C18, witness: two partials with a malformed frame between them, and the
\* turn completion: the text "a" "b" is the model message.
C18_Witness ==
    /\ Len(frames) = 4
    /\ frames[1].kind = "content" /\ frames[1].data.text = <<"a">>
    /\ frames[2].kind = "malformed"
    /\ frames[3].kind = "content" /\ frames[3].data.text = <<"b">>
    /\ frames[4].kind = "content" /\ frames[4].data.turnComplete
    /\ Last(messages) = [role |-> "model", text |-> <<"a", "b">>]
    /\ streamedMessage = <<>>
    /\ contentSubject = frames[4].data

\* C19: a tool call that is processed calls for one frame, whatever the
\* number of its points (an ignored call for none), and once its lookups are
\* issued every one of them was given the image that capture resolved with.
C19_OneFrame ==
    \A r \in 1..Len(runs) :
        /\ runs[r].captures = (IF runs[r].pc = "ignored" THEN 0 ELSE 1)
        /\ runs[r].pc \in {"lookup", "lookupFailed", "scheduled"} =>
              /\ runs[r].frame # Null
              /\ \A i \in 1..Len(runs[r].points) : runs[r].img[i] = runs[r].frame

\* C19, witness: the lookups of a call with two points were issued.
C19_Witness ==
    \E r \in 1..Len(runs) :
        /\ Len(runs[r].points) = 2
        /\ runs[r].pc = "lookup"
        /\ runs[r].captures = 1
        /\ runs[r].img = <<runs[r].frame, runs[r].frame>>

\* C20: the events of a call whose declared delays are all >= 0 are
\* published in point order.
C20_PointOrder ==
    \A r \in 1..Len(runs) :
        nonNegativeDelays(runs[r].points) =>
            \A a, b \in 1..Len(eventsOf(r)) :
                a < b => eventsOf(r)[a].idx < eventsOf(r)[b].idx

\* C20, witness: the lookup of the second point settled before the lookup of
\* the first, and the events of both points are published, the first first.
C20_Witness ==
    \E r \in 1..Len(runs) :
        /\ nonNegativeDelays(runs[r].points)
        /\ runs[r].order = <<2, 1>>
        /\ Len(eventsOf(r)) = 2
        /\ eventsOf(r)[1].idx = 1
        /\ eventsOf(r)[2].idx = 2

\* C21: in a tool call whose lookups are under way, a point whose own lookup
\* has answered with a location has its timer set or its event published,
\* also while the lookup of another point of the call is still pending.
C21_ResolvedPointScheduled ==
    \A r \in 1..Len(runs) :
        runs[r].pc = "lookup" =>
            \A i \in 1..Len(runs[r].points) :
                (/\ runs[r].res[i] = "ok"
                 /\ \E j \in 1..Len(runs[r].points) : runs[r].res[j] = "pending")
                    => hasTimer(r, i) \/ hasEvent(r, i)

\* Two tool calls that overlap: the session, the calls with the one point
\* (pad, 3 s) and with the one point (button, 0 s), in either order and as
\* often as MaxRuns allows, every lookup answering with a location.
TwoCalls ==
    {sequenceCall(<<[description |-> "pad", delay |-> 3]>>),
     sequenceCall(<<[description |-> "button", delay |-> 0]>>)}

NextTwoCalls ==
    \/ Session
    \/ \E toolCall \in TwoCalls : handleMoveCursorInSequence(toolCall)
    \/ \E r \in 1..Len(runs) : frameCaptured(r)
    \/ \E r \in 1..Len(runs) : \E i \in 1..Len(runs[r].points) : lookupSettled(r, i, "ok")
    \/ \E k \in 1..Len(timers) : raiseMoveCursorEvent(k)
    \/ tick

SpecTwoCalls == Init /\ [][NextTwoCalls]_vars

\* A timer that is set stays set until it fires and publishes its event.
timersKept ==
    \A k \in 1..Len(timers) :
        \/ \E j \in 1..Len(timers') :
              /\ timers'[j].run = timers[k].run
              /\ timers'[j].idx = timers[k].idx
              /\ timers'[j].delay = timers[k].delay
        \/ \E j \in 1..Len(published') :
              /\ published'[j].run = timers[k].run
              /\ published'[j].idx = timers[k].idx
              /\ published'[j].delay = timers[k].delay

\* Every event was published at the cumulative delay of its point within
\* its own call, that long after the timers of that call were set.
ownCumulativeDelays ==
    \A k \in 1..Len(published) :
        LET e == published[k]
        IN /\ e.delay = 1000 * SumDelays(runs[e.run].points, e.idx)
           /\ 1000 * e.at = Max0(e.delay)

\* C22: a tool call that comes in while timers of an earlier call are
\* pending leaves those timers, the events published so far and the earlier
\* calls as they are (nothing is cancelled, nothing merged); no timer is ever
\* dropped before it fires; and every event of either call is published at
\* the cumulative delay of its point within its own call.
C22_OverlappingCalls ==
    /\ []ownCumulativeDelays
    /\ [][/\ timersKept
          /\ Len(runs') > Len(runs) =>
                /\ timers' = timers
                /\ published' = published
                /\ \A r \in 1..Len(runs) : runs'[r] = runs[r]]_vars

\* C22, witness: the second call came in while the timer of the first was
\* pending, and its event was published before that of the first call.
C22_Witness ==
    /\ Len(runs) = 2
    /\ runs[2].pending > 0
    /\ Len(published) = 2
    /\ published[1].run = 2 /\ published[1].at = 0
    /\ published[2].run = 1 /\ published[2].at = 3

firstCallIsSequence(toolCall) ==
    /\ ~toolCall.null
    /\ toolCall.functionCalls # <<>>
    /\ toolCall.functionCalls[1].name = "move_cursor_sequence"
    /\ toolCall.functionCalls[1].points # <<>>

\* C24: a request that is null, has no function call, has another call
\* first (a move_cursor_sequence call after it or not) or has no point is
\* ignored: no frame is captured for it, no timer is set and no cursor event
\* published for it, and the step that takes it in leaves the connection
\* and the stream state as they are.
C24_OnlySequenceCalls ==
    /\ [](\A r \in 1..Len(runs) :
            ~firstCallIsSequence(runs[r].toolCall) =>
                /\ runs[r].pc = "ignored"
                /\ runs[r].captures = 0
                /\ runs[r].frame = Null
                /\ eventsOf(r) = <<>>
                /\ \A i \in 1..MaxPoints : ~hasTimer(r, i))
    /\ [][(Len(runs') > Len(runs) /\ ~firstCallIsSequence(Last(runs').toolCall)) =>
             UNCHANGED <<sessionVars, streamVars, timers, published>>]_vars

\* C24, witness: a request with another call before its move_cursor_sequence
\* call came in on a session with a screen stream and was ignored.
C24_Witness ==
    \E r \in 1..Len(runs) :
        /\ runs[r].toolCall = otherCallFirst
        /\ runs[r].stream # Null
        /\ runs[r].pc = "ignored"

\* C25: in every reachable state the field isConnected has the value that
\* connected$ emitted last.
C25_FieldIsLatestConnected == isConnected = connectedSubject

\* C25, witness: a second session is connected after a first one that had
\* been connected was torn down.
C25_Witness ==
    /\ Len(calls) = 2
    /\ calls[1].pc \in {"media", "resolved", "null"}
    /\ calls[1].tr = "closed"
    /\ ws = 2
    /\ calls[2].tr = "open"
    /\ isConnected
    /\ connectedSubject

promisesSettled == \A k \in 1..Len(calls) : calls[k].pc \notin {"connect", "media"}

\* C27: in every state in which no promise is pending, an active screen
\* stream implies a connected session.
C27_StreamingImpliesConnected ==
    promisesSettled => (isStreamingSubject => connectedSubject /\ isConnected)

\* C28: in every state in which the session is disconnected, connectToggle()
\* takes the branch of handleConnect() that calls start(), so that a new
\* connection attempt begins.
C28_ToggleStartsConnect ==
    (~connectedSubject /\ ~trayIsConnected) => callsStart

\* C29: when the screen capture of a start() whose transport connected is
\* refused or fails, start() resolves with null (the tray emits null),
\* isStreaming is false, the step publishes no stream and leaves the
\* connection state as it is; the tray is then unmuted and, the session
\* being connected, the recorder started.
C29_RefusedCaptureKeepsSession ==
    [][\A k \in 1..Len(calls) :
          (calls[k].pc = "media" /\ calls'[k].pc = "null") =>
              /\ ~isStreamingSubject'
              /\ streamSubject' = streamSubject
              /\ screenStream' = screenStream
              /\ connectedSubject' = connectedSubject
              /\ isConnected' = isConnected
              /\ onVideoStreamChange' = Append(onVideoStreamChange, Null)
              /\ ~muted'
              /\ connectedSubject => audioRecorder' = "recording"]_vars

\* C29, witness: the one start() connected and its capture was refused; the
\* session is connected with no stream, the tray unmuted and recording.
C29_Witness ==
    /\ calls = <<[pc |-> "null", tr |-> "open", tracks |-> 0]>>
    /\ connectedSubject
    /\ ~isStreamingSubject
    /\ streamSubject = Null
    /\ onVideoStreamChange = <<Null>>
    /\ ~muted
    /\ audioRecorder = "recording"

userMessages(ms) == SelectSeq(ms, LAMBDA m : m.role = "user")

\* The model messages of the list, in order.
modelMessages(ms) == SelectSeq(ms, LAMBDA m : m.role = "model")

\* C35: no step removes a user message from the list: the user messages
\* before the step are the first user messages after it, in the same order.
C35_UserMessagesStay ==
    [][/\ Len(userMessages(messages')) >= Len(userMessages(messages))
       /\ SubSeq(userMessages(messages'), 1, Len(userMessages(messages)))
             = userMessages(messages)]_vars

\* Every frame so far is a text partial or a turn completion, and every
\* turn completion comes right after a text partial.
textTurns(fs) ==
    \A i \in 1..Len(fs) :
        /\ fs[i].kind = "content"
        /\ fs[i].data.modelTurn => fs[i].data.text # NoText
        /\ fs[i].data.turnComplete => i > 1 /\ fs[i - 1].data.modelTurn

\* C36: when the frames so far are turns of one or more text partials, each
\* closed by its turn completion, the list holds exactly one model message
\* for each turn, the last one with the concatenation of the partials of the
\* last turn as its text, and streamedMessage is empty.
C36_OneModelMessagePerTurn ==
    (frames # <<>> /\ textTurns(frames) /\ Last(frames).data.turnComplete) =>
        /\ Len(modelMessages(messages)) = Cardinality(completions(frames))
        /\ Last(messages) = [role |-> "model",
                             text |-> textOf(turnOf(SubSeq(frames, 1, Len(frames) - 1)))]
        /\ streamedMessage = <<>>

\* C31: the recorder never has more than one 'data' listener, and a chunk
\* it produces is handed to sendRealtimeInput once: one message is written.
C31_OneDataListener ==
    /\ [](dataListeners <= 1)
    /\ [][recorderData => Len(wire') = Len(wire) + 1]_vars

\* C32: at no time is more than one sendVideoFrame callback scheduled.
C32_OneFrameLoop == scheduledFrames <= 1

\* C33: in every state in which no start() is pending, isStreaming is true
\* exactly when stream$ holds a stream.
C33_StreamingIffStream ==
    promisesSettled => (isStreamingSubject <=> streamSubject # Null)

\* C34: the end of a track of a stream that is not the current one, while
\* there is a current one, leaves stream$ and isStreaming as they are.
C34_StaleTrackEnded ==
    [][\A s \in 1..Len(calls) :
          (/\ calls'[s].tracks < calls[s].tracks
           /\ streamSubject # Null
           /\ streamSubject # s) =>
              UNCHANGED <<streamSubject, isStreamingSubject>>]_vars

====
